---- MODULE Spec2Model ----
(***************************************************************************)
(* sui-http middleware: the callback ResponseFuture                        *)
(* (src/middleware/callback/future.rs) and the gRPC timeout racer          *)
(* (src/middleware/grpc_timeout.rs).                                       *)
(*                                                                         *)
(* Option<T> is a sequence of length at most one: None is <<>>, Some(x) is *)
(* <<x>>.  Poll<T> is <<"Pending">> or <<"Ready", t>>.  Result<T, E> is    *)
(* <<"Ok", t>> or <<"Err", e>>.                                            *)
(***************************************************************************)
EXTENDS Integers, Sequences, FiniteSets, TLC

VARIABLES
    \* ---- callback::ResponseFuture and the body it produces
    cbInner,        \* the result the inner future yields once it is ready
    cbInnerReady,   \* whether the inner future's next poll returns Ready
    cbInnerPolls,   \* how many times the inner future has been polled
    cbInnerDone,    \* the inner future has returned Ready
    handler,        \* ResponseFuture.handler : Option<ResponseHandler>
    handlerOwner,   \* who owns the handler object: "future", "body", "dropped"
    events,         \* the events the handler has received, in order
    cbOut,          \* what the last poll returned (<<>> before the first poll)
    cbResult,       \* what the first poll that returned Ready returned
    cbPolls,        \* how many times the future has been polled
    bodyPos,        \* frames the ResponseBody has yielded so far
    bodyEnded,      \* the ResponseBody has reported end of stream
    \* ---- grpc_timeout::ResponseFuture
    rInner,         \* the result the inner future yields once it is ready
    rInnerReady,    \* whether the inner future's next poll returns Ready
    rInnerPolls,    \* how many times the racer polled the inner future
    sleep,          \* ResponseFuture.sleep : Option<Sleep>, a Sleep is its deadline
    now,            \* the time elapsed since the future was created
    rReadyAt,       \* Some(the time at which the inner future became ready)
    rBranch,        \* the return statement the last poll left through
    rOut,           \* what the last poll returned (<<>> before the first poll)
    rPolls,         \* how many times the racer has been polled
    \* ---- GrpcTimeout::call and try_parse_grpc_timeout
    headers,        \* headers.get(GRPC_TIMEOUT_HEADER) : Option<HeaderValue>
    server_timeout, \* GrpcTimeout.server_timeout : Option<Duration>
    pc,             \* "new", then "parsed" (the parser returned) or "called"
    parsed,         \* what try_parse_grpc_timeout returned (<<>> before)
    timeout_duration, \* call's timeout_duration : Option<Duration>
    innerCalls,     \* how many times call dispatched to the inner service
    \* ---- MaybeEmptyBody
    mbBody,         \* the MaybeEmptyBody { inner: Option<B> }
    mbPos,          \* frames the inner body has yielded so far
    mbFrame,        \* what the last poll_frame returned (<<>> before)
    mbIsEnd,        \* what the last is_end_stream returned (<<>> before)
    mbHint,         \* what the last size_hint returned (<<>> before)
    mbCall          \* the last method called, and the state it was called in

cbVars == <<cbInner, cbInnerReady, cbInnerPolls, cbInnerDone, handler, handlerOwner, events,
            cbOut, cbResult, cbPolls, bodyPos, bodyEnded>>
rVars == <<rInner, rInnerReady, rInnerPolls, sleep, now, rReadyAt, rBranch,
           rOut, rPolls>>
svcVars == <<headers, server_timeout, pc, parsed, timeout_duration, innerCalls>>
mbVars == <<mbBody, mbPos, mbFrame, mbIsEnd, mbHint, mbCall>>
xVars == <<svcVars, mbVars>>
vars == <<cbVars, rVars, xVars>>

\* ------------------------------------------------------------------ bounds

MaxPolls == 4
MaxChunks == 2
MaxTime == 3

Heads == {"head200", "head500"}
Chunks == {"c1", "c2"}
InnerErrors == {"e1", "e2"}

RECURSIVE SeqsUpTo(_, _)
SeqsUpTo(S, n) ==
    IF n = 0 THEN {<<>>}
    ELSE LET shorter == SeqsUpTo(S, n - 1)
         IN shorter \cup {Append(s, x) : s \in shorter, x \in S}

\* ------------------------------------------------------------- Option, Poll

None == <<>>
Some(x) == <<x>>
Pending == <<"Pending">>
Ready(x) == <<"Ready", x>>
Ok(x) == <<"Ok", x>>
Err(e) == <<"Err", e>>
IsReady(p) == p # <<>> /\ p[1] = "Ready"

\* ------------------------------------------------ callback/future.rs: Error

ErrorInner(e) == <<"Inner", e>>
PolledAfterCompletion == <<"PolledAfterCompletion">>

\* ------------------------------------------ callback/mod.rs: ResponseHandler

on_response(head) == <<"on_response", head>>
on_error(e) == <<"on_error", e>>
on_body_chunk(c) == <<"on_body_chunk", c>>
on_end_of_stream == <<"on_end_of_stream">>

\* --------------------------------------- callback/future.rs: ResponseFuture

\* The inner future: a response (head and body chunks) or an error.
CbInnerResults ==
    {Ok([head |-> h, body |-> b]) : h \in Heads, b \in SeqsUpTo(Chunks, MaxChunks)}
        \cup {Err(e) : e \in InnerErrors}

\* ResponseBody { inner: body, handler }
ResponseBody(body) == [inner |-> body, handler |-> "handler"]

CbInit ==
    /\ cbInner \in CbInnerResults
    /\ cbInnerReady \in BOOLEAN
    /\ cbInnerPolls = 0
    /\ cbInnerDone = FALSE
    /\ handler = Some("handler")
    /\ handlerOwner = "future"
    /\ events = <<>>
    /\ cbOut = <<>>
    /\ cbResult = <<>>
    /\ cbPolls = 0
    /\ bodyPos = 0
    /\ bodyEnded = FALSE

\* A slot that is read without being emptied (as_mut in place of take).
TakeLeavesHandler == handler

\* this.handler.take(): what the slot holds afterwards
TakeLeaves == None

\* this.inner.poll(cx)
CbInnerPoll == IF cbInnerReady THEN Ready(cbInner) ELSE Pending

\* line 76: the slot was already empty
CbPollCompleted ==
    /\ cbOut' = Ready(Err(PolledAfterCompletion))
    /\ UNCHANGED <<handler, handlerOwner, events, cbInnerPolls, cbInnerDone>>

\* line 80: ready! returns Pending; the local `handler` goes out of scope
CbPollPending ==
    /\ cbOut' = Pending
    /\ handlerOwner' = "dropped"
    /\ UNCHANGED events

\* lines 83-93
CbPollOk(response) ==
    /\ events' = Append(events, on_response(response.head))
    /\ handlerOwner' = "body"
    /\ cbOut' = Ready(Ok([head |-> response.head, body |-> ResponseBody(response.body)]))

\* The Err arm without its on_error call.
CbPollErrUnobserved(error) ==
    /\ events' = events
    /\ handlerOwner' = "dropped"
    /\ cbOut' = Ready(Err(ErrorInner(error)))

\* lines 94-97
CbPollErr(error) ==
    /\ events' = Append(events, on_error(error))
    /\ handlerOwner' = "dropped"
    /\ cbOut' = Ready(Err(ErrorInner(error)))

CbPoll ==
    /\ cbPolls < MaxPolls
    /\ cbPolls' = cbPolls + 1
    /\ IF handler = None
       THEN CbPollCompleted
       ELSE /\ handler' = TakeLeaves
            /\ cbInnerPolls' = cbInnerPolls + 1
            /\ cbInnerDone' = (cbInnerDone \/ IsReady(CbInnerPoll))
            /\ LET result == CbInnerPoll
               IN IF result = Pending THEN CbPollPending
                  ELSE IF result[2][1] = "Ok" THEN CbPollOk(result[2][2])
                  ELSE CbPollErr(result[2][2])
    /\ cbResult' = IF cbResult = <<>> /\ IsReady(cbOut') THEN cbOut' ELSE cbResult
    /\ UNCHANGED <<cbInner, cbInnerReady, bodyPos, bodyEnded, rVars, xVars>>

\* The inner service finishes its work: its future will return Ready.
CbInnerBecomesReady ==
    /\ ~cbInnerReady
    /\ cbInnerReady' = TRUE
    /\ UNCHANGED <<cbInner, cbInnerPolls, cbInnerDone, handler, handlerOwner, events, cbOut,
                   cbResult, cbPolls, bodyPos, bodyEnded, rVars, xVars>>

\* ResponseBody::poll_frame: a data frame is shown to the handler, the end of
\* the stream is reported to it once.
BodyPollFrame ==
    /\ IsReady(cbResult) /\ cbResult[2][1] = "Ok"
    /\ handlerOwner = "body"
    /\ ~bodyEnded
    /\ LET body == cbResult[2][2].body.inner
       IN IF bodyPos < Len(body)
          THEN /\ events' = Append(events, on_body_chunk(body[bodyPos + 1]))
               /\ bodyPos' = bodyPos + 1
               /\ UNCHANGED bodyEnded
          ELSE /\ events' = Append(events, on_end_of_stream)
               /\ bodyEnded' = TRUE
               /\ UNCHANGED bodyPos
    /\ UNCHANGED <<cbInner, cbInnerReady, cbInnerPolls, cbInnerDone, handler, handlerOwner,
                   cbOut, cbResult, cbPolls, rVars, xVars>>

\* ------------------------------------------- grpc_timeout.rs: ResponseFuture

CONTENT_TYPE == "content-type"
GRPC_STATUS_HEADER == "grpc-status"
GRPC_MESSAGE_HEADER == "grpc-message"
GRPC_CONTENT_TYPE == "application/grpc"
GRPC_DEADLINE_EXCEEDED_CODE == "4"
GRPC_DEADLINE_EXCEEDED_MESSAGE == "Timeout%20expired"

\* A wrapper that loses the inner body.
MaybeEmptyBodyFullLosesBody(inner) == [inner |-> None]

\* MaybeEmptyBody { inner: Option<B> }
MaybeEmptyBodyFull(inner) == [inner |-> Some(inner)]
MaybeEmptyBodyEmpty == [inner |-> None]

\* http::Response::new: status 200, no headers
ResponseNew(body) == [status |-> "200", headers |-> {}, body |-> body]

\* HeaderMap::insert replaces the value the name had
HeaderInsert(response, name, value) ==
    [response EXCEPT !.headers = {h \in @ : h[1] # name} \cup {<<name, value>>}]

\* The synthesized response with the status of another gRPC code and no message.
TimeoutResponseOtherCode ==
    HeaderInsert(
        HeaderInsert(ResponseNew(MaybeEmptyBodyEmpty), CONTENT_TYPE, GRPC_CONTENT_TYPE),
        GRPC_STATUS_HEADER, "2")

\* lines 105-115
TimeoutResponse ==
    HeaderInsert(
        HeaderInsert(
            HeaderInsert(ResponseNew(MaybeEmptyBodyEmpty), CONTENT_TYPE, GRPC_CONTENT_TYPE),
            GRPC_STATUS_HEADER, GRPC_DEADLINE_EXCEEDED_CODE),
        GRPC_MESSAGE_HEADER, GRPC_DEADLINE_EXCEEDED_MESSAGE)

\* line 100: result.map(|response| response.map(MaybeEmptyBody::full))
MapFull(result) ==
    IF result[1] = "Ok"
    THEN Ok([result[2] EXCEPT !.body = MaybeEmptyBodyFull(@)])
    ELSE result

\* The Expired branch without its return: control falls through to line 120.
ExpiredFallsThrough == Pending

\* The Expired branch reporting the expiry as an error (as tower's Timeout does).
ExpiredReturnsErr == Ready(Err("deadline has elapsed"))

\* line 117
ExpiredReturn == Ready(Ok(TimeoutResponse))

\* The responses and errors of the inner service.
RInnerResponses ==
    { [status |-> "200", headers |-> {}, body |-> <<>>],
      [status |-> "200",
       headers |-> {<<CONTENT_TYPE, GRPC_CONTENT_TYPE>>, <<GRPC_STATUS_HEADER, "0">>},
       body |-> <<"c1", "c2">>],
      [status |-> "500",
       headers |-> {<<GRPC_STATUS_HEADER, "4">>, <<GRPC_MESSAGE_HEADER, "late">>},
       body |-> <<"c1">>] }

RInnerResults == {Ok(r) : r \in RInnerResponses} \cup {Err(e) : e \in InnerErrors}

\* timeout_duration.map(tokio::time::sleep): the Sleep's deadline
Durations == 0 .. MaxTime - 1

RInit ==
    /\ rInner \in RInnerResults
    /\ rInnerReady \in BOOLEAN
    /\ rInnerPolls = 0
    /\ sleep \in {None} \cup {Some(d) : d \in Durations}
    /\ now = 0
    /\ rReadyAt = IF rInnerReady THEN Some(0) ELSE None
    /\ rBranch = "none"
    /\ rOut = <<>>
    /\ rPolls = 0

\* this.inner.poll(cx)
RInnerPoll == IF rInnerReady THEN Ready(rInner) ELSE Pending

\* A timer that never completes.
SleepPollNeverReady(s) == Pending

\* sleep.poll(cx)
SleepPoll(s) == IF now >= s THEN Ready(<<>>) ELSE Pending

RDone == IsReady(rOut)

\* A poll that looks at the timer before the inner future.
RacerPollTimerFirst ==
    /\ ~RDone
    /\ rPolls < MaxPolls
    /\ rPolls' = rPolls + 1
    /\ IF sleep # None /\ IsReady(SleepPoll(sleep[1]))
       THEN /\ rOut' = ExpiredReturn
            /\ rBranch' = "expired"
            /\ rInnerPolls' = rInnerPolls
       ELSE /\ rInnerPolls' = rInnerPolls + 1
            /\ LET result == RInnerPoll
               IN IF IsReady(result)
                  THEN /\ rOut' = Ready(MapFull(result[2]))
                       /\ rBranch' = "inner"
                  ELSE /\ rOut' = Pending
                       /\ rBranch' = "pending"
    /\ UNCHANGED <<rInner, rInnerReady, sleep, now, rReadyAt, cbVars, xVars>>

\* A future that returned Ready is consumed: the driver polls it no more.
RacerPoll ==
    /\ ~RDone
    /\ rPolls < MaxPolls
    /\ rPolls' = rPolls + 1
    /\ rInnerPolls' = rInnerPolls + 1
    /\ LET result == RInnerPoll
       IN IF IsReady(result)
          THEN /\ rOut' = Ready(MapFull(result[2]))
               /\ rBranch' = "inner"
          ELSE IF sleep # None
          THEN IF IsReady(SleepPoll(sleep[1]))
               THEN /\ rOut' = ExpiredReturn
                    /\ rBranch' = "expired"
               ELSE /\ rOut' = Pending
                    /\ rBranch' = "pending"
          ELSE /\ rOut' = Pending
               /\ rBranch' = "pending"
    /\ UNCHANGED <<rInner, rInnerReady, sleep, now, rReadyAt, cbVars, xVars>>

\* The inner service finishes its work: its future would return Ready.  It goes
\* on after the racer has resolved: the racer sends it no signal.
RInnerBecomesReady ==
    /\ ~rInnerReady
    /\ rInnerReady' = TRUE
    /\ rReadyAt' = Some(now)
    /\ UNCHANGED <<rInner, rInnerPolls, sleep, now, rBranch, rOut,
                   rPolls, cbVars, xVars>>

\* Time passes; the timer has fired once `now` has reached the deadline.
Tick ==
    /\ now < MaxTime
    /\ now' = now + 1
    /\ UNCHANGED <<rInner, rInnerReady, rInnerPolls, sleep, rReadyAt, rBranch, rOut,
                   rPolls, cbVars, xVars>>

\* The executor polls a task when it is spawned and then when a waker it
\* handed out has been invoked: by the inner future on becoming ready (the cx
\* of line 99) or by the timer on firing (the cx of line 104).
WokenPoll ==
    /\ \/ rPolls = 0
       \/ rInnerReady
       \/ sleep # None /\ IsReady(SleepPoll(sleep[1]))
    /\ RacerPoll

\* --------------------------------- grpc_timeout.rs: try_parse_grpc_timeout

\* An unsigned integer of any size is the sequence of its decimal digits, the
\* least significant first, without leading zeros: 0 is <<>>, 3600 is
\* <<0, 0, 6, 3>>.  (TLC's own integers are 32 bits wide.)

RECURSIVE BigNorm(_)
BigNorm(a) ==
    IF a = <<>> THEN <<>>
    ELSE IF a[Len(a)] = 0 THEN BigNorm(SubSeq(a, 1, Len(a) - 1))
    ELSE a

\* a * k + carry, digit by digit
RECURSIVE BigMulAdd(_, _, _)
BigMulAdd(a, k, carry) ==
    IF a = <<>>
    THEN IF carry = 0 THEN <<>> ELSE <<carry % 10>> \o BigMulAdd(<<>>, k, carry \div 10)
    ELSE LET t == Head(a) * k + carry
         IN <<t % 10>> \o BigMulAdd(Tail(a), k, t \div 10)

BigMul(a, k) == BigNorm(BigMulAdd(a, k, 0))
BigAdd(a, d) == BigNorm(BigMulAdd(a, 1, d))

\* a < b, the most significant digits compared first
RECURSIVE BigLessSameLen(_, _)
BigLessSameLen(a, b) ==
    IF a = <<>> THEN FALSE
    ELSE IF a[Len(a)] # b[Len(b)] THEN a[Len(a)] < b[Len(b)]
    ELSE BigLessSameLen(SubSeq(a, 1, Len(a) - 1), SubSeq(b, 1, Len(b) - 1))

BigLess(a, b) ==
    IF Len(a) # Len(b) THEN Len(a) < Len(b) ELSE BigLessSameLen(a, b)

BigLeq(a, b) == ~BigLess(b, a)

\* a - b for a >= b
RECURSIVE BigSubBorrow(_, _, _)
BigSubBorrow(a, b, borrow) ==
    IF a = <<>> THEN <<>>
    ELSE LET bd == IF b = <<>> THEN 0 ELSE Head(b)
             t == Head(a) - bd - borrow
         IN <<(t + 10) % 10>>
               \o BigSubBorrow(Tail(a), IF b = <<>> THEN <<>> ELSE Tail(b),
                               IF t < 0 THEN 1 ELSE 0)

BigSub(a, b) == BigNorm(BigSubBorrow(a, b, 0))

RECURSIVE BigSubWhile(_, _)
BigSubWhile(a, m) == IF BigLess(a, m) THEN a ELSE BigSubWhile(BigSub(a, m), m)

\* a mod m, by long division
RECURSIVE BigMod(_, _)
BigMod(a, m) ==
    IF BigLess(a, m) THEN a ELSE BigSubWhile(BigMod(a, <<0>> \o m), m)

\* 2^64 = 18446744073709551616
TwoPow64 == <<6, 1, 6, 1, 5, 5, 9, 0, 7, 3, 7, 0, 4, 4, 7, 6, 4, 4, 8, 1>>

\* u64 `*` (the wrapping product of a build without overflow checks)
MulU64(a, k) == BigMod(BigMul(a, k), TwoPow64)

\* std::time::Duration { secs: u64, nanos: u32 }
DurationFromSecs(secs) == [secs |-> secs, nanos |-> <<>>]
\* v / 10^n and v % 10^n
BigDivPow10(v, n) == IF Len(v) <= n THEN <<>> ELSE SubSeq(v, n + 1, Len(v))
BigModPow10(v, n) == BigNorm(IF Len(v) <= n THEN v ELSE SubSeq(v, 1, n))
BigShift(v, n) == IF v = <<>> THEN <<>> ELSE [i \in 1 .. n |-> 0] \o v
\* from_millis taking its argument for microseconds.
DurationFromMillisAsMicros(ms) ==
    [secs |-> BigDivPow10(ms, 6), nanos |-> BigShift(BigModPow10(ms, 6), 3)]

DurationFromMillis(ms) ==
    [secs |-> BigDivPow10(ms, 3), nanos |-> BigShift(BigModPow10(ms, 3), 6)]
DurationFromMicros(us) ==
    [secs |-> BigDivPow10(us, 6), nanos |-> BigShift(BigModPow10(us, 6), 3)]
DurationFromNanos(ns) ==
    [secs |-> BigDivPow10(ns, 9), nanos |-> BigModPow10(ns, 9)]

\* Duration::as_nanos: secs * 10^9 + nanos
DurationNanos(dur) ==
    IF dur.secs = <<>> THEN dur.nanos
    ELSE dur.nanos \o [i \in 1 .. 9 - Len(dur.nanos) |-> 0] \o dur.secs

\* Ord for Duration: secs, then nanos
DurationLeq(a, b) ==
    IF a.secs # b.secs THEN BigLess(a.secs, b.secs) ELSE BigLeq(a.nanos, b.nanos)

\* std::cmp::min(v1, v2): v1 unless v2 is smaller
DurationMin(v1, v2) == IF DurationLeq(v1, v2) THEN v1 ELSE v2

\* A HeaderValue is the sequence of its characters.  HeaderValue::to_str gives
\* Ok only for visible ASCII.
DigitChars == <<"0", "1", "2", "3", "4", "5", "6", "7", "8", "9">>
IsDigitChar(c) == \E i \in 1 .. 10 : DigitChars[i] = c
DigitValue(c) == (CHOOSE i \in 1 .. 10 : DigitChars[i] = c) - 1

VisibleAscii ==
    {DigitChars[i] : i \in 1 .. 10}
        \cup {"H", "M", "S", "m", "u", "n", "f", "o", "e", "+", "-", " ", "."}

ToStr(val) == IF \A i \in 1 .. Len(val) : val[i] \in VisibleAscii THEN Ok(val) ELSE Err(val)

\* <u64 as FromStr>::from_str: an optional "+", then decimal digits only,
\* result = result * 10 + digit, checked against u64::MAX.
RECURSIVE ParseDigits(_, _)
ParseDigits(src, acc) ==
    IF src = <<>> THEN Ok(acc)
    ELSE IF ~IsDigitChar(Head(src)) THEN Err("InvalidDigit")
    ELSE LET next == BigAdd(BigMul(acc, 10), DigitValue(Head(src)))
         IN IF BigLeq(TwoPow64, next) THEN Err("PosOverflow")
            ELSE ParseDigits(Tail(src), next)

ParseU64(src) ==
    IF src = <<>> THEN Err("Empty")
    ELSE IF src = <<"+">> \/ src = <<"-">> THEN Err("InvalidDigit")
    ELSE IF Head(src) = "+" THEN ParseDigits(Tail(src), <<>>)
    ELSE ParseDigits(src, <<>>)

SECONDS_IN_HOUR == 3600
SECONDS_IN_MINUTE == 60

\* The parser without its cap on the digits.
NeverTooManyDigits(timeout_value) == FALSE

\* line 200: timeout_value.len() > 8
TooManyDigits(timeout_value) == Len(timeout_value) > 8

\* lines 206-220
UnitDuration(timeout_value, timeout_unit, val) ==
    CASE timeout_unit = <<"H">> -> Ok(Some(DurationFromSecs(MulU64(timeout_value, SECONDS_IN_HOUR))))
      [] timeout_unit = <<"M">> -> Ok(Some(DurationFromSecs(MulU64(timeout_value, SECONDS_IN_MINUTE))))
      [] timeout_unit = <<"S">> -> Ok(Some(DurationFromSecs(timeout_value)))
      [] timeout_unit = <<"m">> -> Ok(Some(DurationFromMillis(timeout_value)))
      [] timeout_unit = <<"u">> -> Ok(Some(DurationFromMicros(timeout_value)))
      [] timeout_unit = <<"n">> -> Ok(Some(DurationFromNanos(timeout_value)))
      [] OTHER -> Err(val)

\* lines 180-223
try_parse_grpc_timeout(hdrs) ==
    IF hdrs = None THEN Ok(None)
    ELSE LET val == hdrs[1]
         IN IF ToStr(val)[1] = "Err" \/ val = <<>> THEN Err(val)
            ELSE LET timeout_value == SubSeq(val, 1, Len(val) - 1)
                     timeout_unit == SubSeq(val, Len(val), Len(val))
                 IN IF TooManyDigits(timeout_value) THEN Err(val)
                    ELSE LET value == ParseU64(timeout_value)
                         IN IF value[1] = "Err" THEN Err(val)
                            ELSE UnitDuration(value[2], timeout_unit, val)

\* The header values tried: the values of the parser's own tests, every string
\* of up to MaxLen characters of HeaderAlphabet, and runs of one digit of up to
\* MaxRun digits with a unit.
TestValues ==
    { <<"3", "H">>, <<"1", "M">>, <<"4", "2", "S">>, <<"1", "3", "m">>, <<"2", "u">>,
      <<"8", "2", "n">>, <<"8", "2", "f">>, <<"o", "n", "e", "H">>,
      <<"1", "2", "3", "4", "5", "6", "7", "8", "9", "H">> }

MaxLen == 3
MaxRun == 20
HeaderAlphabet == {"0", "1", "9", "+", "-", "H", "M", "S", "m", "u", "n", "f", "o", "é"}
Run(c, k) == [i \in 1 .. k |-> c]
HeaderValues ==
    TestValues
        \cup SeqsUpTo(HeaderAlphabet, MaxLen)
        \cup {Run(c, k) \o <<u>> : c \in {"0", "1", "9"}, k \in 1 .. MaxRun,
                                   u \in {"H", "M", "S", "m", "u", "n", "f"}}
        \cup {<<"+">> \o Run("9", k) \o <<"H">> : k \in 1 .. MaxRun}

ParseInit ==
    /\ headers \in {None} \cup {Some(v) : v \in HeaderValues}
    /\ server_timeout = None
    /\ pc = "new"
    /\ parsed = <<>>
    /\ timeout_duration = None
    /\ innerCalls = 0

\* try_parse_grpc_timeout(req.headers())
TryParse ==
    /\ pc = "new"
    /\ pc' = "parsed"
    /\ parsed' = try_parse_grpc_timeout(headers)
    /\ UNCHANGED <<headers, server_timeout, timeout_duration, innerCalls, mbVars,
                   cbVars, rVars>>

\* ------------------------------------------- grpc_timeout.rs: GrpcTimeout

\* lines 58-61: unwrap_or_else(|e| { trace!(..); None })
ClientTimeout(result) == IF result[1] = "Ok" THEN result[2] ELSE None

\* A reconciliation in which a configured server timeout always wins.
TimeoutDurationServerWins(client_timeout, server) ==
    IF server # None THEN server ELSE client_timeout

\* A reconciliation that arms a zero timer when nothing is set.
TimeoutDurationDefaultsToZero(client_timeout, server) ==
    IF client_timeout = None /\ server = None THEN Some(DurationFromSecs(<<>>))
    ELSE IF client_timeout = None THEN server
    ELSE IF server = None THEN client_timeout
    ELSE Some(DurationMin(client_timeout[1], server[1]))

\* lines 64-72
TimeoutDuration(client_timeout, server) ==
    CASE client_timeout = None /\ server = None -> None
      [] client_timeout # None /\ server = None -> Some(client_timeout[1])
      [] client_timeout = None /\ server # None -> Some(server[1])
      [] OTHER -> Some(DurationMin(client_timeout[1], server[1]))

\* tokio::time::sleep(duration): the deadline on the clock `now`, which counts
\* nanoseconds up to MaxTime; a later deadline is one beyond that horizon.
SleepFor(duration) ==
    LET ns == DurationNanos(duration)
    IN IF ns = <<>> THEN 0
       ELSE IF Len(ns) > 1 \/ ns[1] > MaxTime THEN MaxTime + 1
       ELSE ns[1]

\* The requests and configurations tried.
CallHeaderValues ==
    { <<"0", "S">>, <<"1", "n">>, <<"2", "n">>, <<"1", "S">>,
      <<>>, <<"1">>, <<"1", "f">>, <<"é", "n">>, <<"+", "1", "n">> }

ServerTimeouts ==
    { DurationFromNanos(<<1>>), DurationFromNanos(<<2>>), DurationFromSecs(<<1>>) }

CallInit ==
    /\ headers \in {None} \cup {Some(v) : v \in CallHeaderValues}
    /\ server_timeout \in {None} \cup {Some(d) : d \in ServerTimeouts}
    /\ pc = "new"
    /\ parsed = <<>>
    /\ timeout_duration = None
    /\ innerCalls = 0
    /\ rInner \in RInnerResults
    /\ rInnerReady = FALSE
    /\ rInnerPolls = 0
    /\ sleep = None
    /\ now = 0
    /\ rReadyAt = None
    /\ rBranch = "none"
    /\ rOut = <<>>
    /\ rPolls = 0

\* lines 57-78
Call ==
    /\ pc = "new"
    /\ pc' = "called"
    /\ parsed' = try_parse_grpc_timeout(headers)
    /\ timeout_duration' = TimeoutDuration(ClientTimeout(parsed'), server_timeout)
    /\ innerCalls' = innerCalls + 1
    /\ rInnerReady' \in BOOLEAN
    /\ rReadyAt' = IF rInnerReady' THEN Some(0) ELSE None
    /\ sleep' = IF timeout_duration' = None THEN None
                ELSE Some(SleepFor(timeout_duration'[1]))
    /\ UNCHANGED <<headers, server_timeout, rInner, rInnerPolls, now, rBranch, rOut,
                   rPolls, mbVars, cbVars>>

\* ---------------------------------------- grpc_timeout.rs: MaybeEmptyBody

\* The inner body B: the frames it yields, each a data chunk or an error.
InnerBodies == SeqsUpTo(Chunks \cup InnerErrors, MaxChunks)

\* B::poll_frame at position pos; `ready` is whether B has its next answer.
InnerPollFrame(b, pos, ready) ==
    IF ~ready THEN Pending
    ELSE IF pos < Len(b)
    THEN Ready(Some(IF b[pos + 1] \in InnerErrors THEN Err(b[pos + 1])
                    ELSE Ok(b[pos + 1])))
    ELSE Ready(None)

\* B::is_end_stream
InnerIsEndStream(b, pos) == pos >= Len(b)

\* http_body::SizeHint::with_exact
SizeHintWithExact(n) == [lower |-> n, upper |-> Some(n)]

\* B::size_hint: the frames left, when B knows its length
InnerSizeHint(b, pos) == SizeHintWithExact(Len(b) - pos)

\* lines 148-156
poll_frame(body, pos, ready) ==
    IF body.inner # None THEN InnerPollFrame(body.inner[1], pos, ready)
    ELSE Ready(None)

\* http_body::Body's provided is_end_stream, which answers false.
is_end_stream_provided(body, pos) ==
    IF body.inner # None THEN InnerIsEndStream(body.inner[1], pos)
    ELSE FALSE

\* lines 158-163
is_end_stream(body, pos) ==
    IF body.inner # None THEN InnerIsEndStream(body.inner[1], pos)
    ELSE TRUE

\* lines 165-170
size_hint(body, pos) ==
    IF body.inner # None THEN InnerSizeHint(body.inner[1], pos)
    ELSE SizeHintWithExact(0)

\* No method of the body has been called.
NoCall == [method |-> "none", ready |-> FALSE, pos |-> 0]

MbInit ==
    /\ mbBody \in {MaybeEmptyBodyEmpty} \cup {MaybeEmptyBodyFull(b) : b \in InnerBodies}
    /\ mbPos = 0
    /\ mbFrame = <<>>
    /\ mbIsEnd = <<>>
    /\ mbHint = <<>>
    /\ mbCall = NoCall

\* A call of poll_frame; a yielded frame moves the inner body on.
MbPollFrame ==
    \E ready \in BOOLEAN :
        /\ mbFrame' = poll_frame(mbBody, mbPos, ready)
        /\ mbPos' = IF IsReady(mbFrame') /\ mbFrame'[2] # None THEN mbPos + 1 ELSE mbPos
        /\ mbCall' = [method |-> "poll_frame", ready |-> ready, pos |-> mbPos]
        /\ UNCHANGED <<mbBody, mbIsEnd, mbHint, cbVars, rVars, svcVars>>

\* A call of is_end_stream
MbIsEndStream ==
    /\ mbIsEnd' = Some(is_end_stream(mbBody, mbPos))
    /\ mbCall' = [method |-> "is_end_stream", ready |-> FALSE, pos |-> mbPos]
    /\ UNCHANGED <<mbBody, mbPos, mbFrame, mbHint, cbVars, rVars, svcVars>>

\* A call of size_hint
MbSizeHint ==
    /\ mbHint' = Some(size_hint(mbBody, mbPos))
    /\ mbCall' = [method |-> "size_hint", ready |-> FALSE, pos |-> mbPos]
    /\ UNCHANGED <<mbBody, mbPos, mbFrame, mbIsEnd, cbVars, rVars, svcVars>>

\* ---------------------------------------------------------- specifications

RIdle ==
    /\ rInner = <<>>
    /\ rInnerReady = FALSE
    /\ rInnerPolls = 0
    /\ sleep = None
    /\ now = 0
    /\ rReadyAt = None
    /\ rBranch = "none"
    /\ rOut = <<>>
    /\ rPolls = 0

CbIdle ==
    /\ cbInner = <<>>
    /\ cbInnerReady = FALSE
    /\ cbInnerPolls = 0
    /\ cbInnerDone = FALSE
    /\ handler = None
    /\ handlerOwner = "future"
    /\ events = <<>>
    /\ cbOut = <<>>
    /\ cbResult = <<>>
    /\ cbPolls = 0
    /\ bodyPos = 0
    /\ bodyEnded = FALSE

SvcIdle ==
    /\ headers = None
    /\ server_timeout = None
    /\ pc = "idle"
    /\ parsed = <<>>
    /\ timeout_duration = None
    /\ innerCalls = 0

MbIdle ==
    /\ mbBody = <<>>
    /\ mbPos = 0
    /\ mbFrame = <<>>
    /\ mbIsEnd = <<>>
    /\ mbHint = <<>>
    /\ mbCall = NoCall

Init == CbInit /\ RIdle /\ SvcIdle /\ MbIdle
Next == CbPoll \/ CbInnerBecomesReady \/ BodyPollFrame
Spec == Init /\ [][Next]_vars

RacerInit == RInit /\ CbIdle /\ SvcIdle /\ MbIdle
RacerNext == RacerPoll \/ RInnerBecomesReady \/ Tick
RacerSpec == RacerInit /\ [][RacerNext]_vars

\* The racer under an executor that polls on wake-ups, and a clock that runs.
FairRacerNext == WokenPoll \/ RInnerBecomesReady \/ Tick
FairRacerSpec ==
    RacerInit /\ [][FairRacerNext]_vars /\ WF_vars(WokenPoll) /\ WF_vars(Tick)

BodyInit == MbInit /\ CbIdle /\ RIdle /\ SvcIdle
BodyNext == MbPollFrame \/ MbIsEndStream \/ MbSizeHint
BodySpec == BodyInit /\ [][BodyNext]_vars

ServiceInit == CallInit /\ CbIdle /\ MbIdle
\* The future returned by call, driven after the call (lines 74-77).
CalledPoll == pc = "called" /\ RacerPoll
CalledInnerBecomesReady == pc = "called" /\ RInnerBecomesReady
CalledTick == pc = "called" /\ Tick
ServiceNext == Call \/ CalledPoll \/ CalledInnerBecomesReady \/ CalledTick
ServiceSpec == ServiceInit /\ [][ServiceNext]_vars

ParserInit == ParseInit /\ CbIdle /\ RIdle /\ MbIdle
ParserNext == TryParse
ParserSpec == ParserInit /\ [][ParserNext]_vars

\* ------------------------------------------------- callback::ResponseFuture

CbPollStep == cbPolls' = cbPolls + 1

IsHeadEvent(ev) == ev[1] \in {"on_response", "on_error"}
HeadEvents == SelectSeq(events, IsHeadEvent)

RECURSIVE ChunkEvents(_)
ChunkEvents(body) ==
    IF body = <<>> THEN <<>>
    ELSE <<on_body_chunk(Head(body))>> \o ChunkEvents(Tail(body))

\* on_response, one on_body_chunk per chunk in order, on_end_of_stream
ExpectedTrace(response) ==
    <<on_response(response.head)>> \o ChunkEvents(response.body) \o <<on_end_of_stream>>

IsPrefix(s, t) == Len(s) <= Len(t) /\ SubSeq(t, 1, Len(s)) = s

\* C1: a poll in which the inner future returns not-ready returns Pending and
\* leaves the handler untouched: no event, the handler stays in the future's
\* slot and is there for the next poll.
C1_PendingKeepsHandler ==
    [][(CbPollStep /\ handler # None /\ ~cbInnerReady)
          => /\ cbOut' = Pending
             /\ events' = events
             /\ handler' = handler
             /\ handlerOwner' = "future"]_vars

\* C2: once the future has resolved and its inner future was able to complete,
\* the handler has received exactly one head-level event, on_response for a
\* success and on_error for a failure, and it is owned by the body on success
\* and dropped on failure.
C2_ExactlyOneHeadEvent ==
    (IsReady(cbResult) /\ cbInnerReady)
        => /\ Len(HeadEvents) = 1
           /\ cbInner[1] = "Ok" =>
                 HeadEvents[1] = on_response(cbInner[2].head) /\ handlerOwner = "body"
           /\ cbInner[1] = "Err" =>
                 HeadEvents[1] = on_error(cbInner[2]) /\ handlerOwner = "dropped"

\* C3: PolledAfterCompletion is returned only by a poll made after an earlier
\* poll returned Ready: the first Ready a caller sees is never that error.
C3_MisuseOnlyAfterReady ==
    cbResult # Ready(Err(PolledAfterCompletion))

\* C4: every poll made after the future resolved with a response or an inner
\* error returns Ready(Err(PolledAfterCompletion)) and shows the handler
\* nothing.
CbResolved == IsReady(cbResult) /\ cbResult[2] # Err(PolledAfterCompletion)

C4_PollAfterResolved ==
    [][(CbPollStep /\ CbResolved)
          => /\ cbOut' = Ready(Err(PolledAfterCompletion))
             /\ events' = events
             /\ cbInnerPolls' = cbInnerPolls]_vars

C4_Witness ==
    /\ CbResolved
    /\ cbOut = Ready(Err(PolledAfterCompletion))
    /\ cbInner[1] = "Ok"

\* C9: for an inner success the handler observes on_response, then the chunks
\* in the order the body produced them, then on_end_of_stream, whatever the
\* number of not-ready polls before: a resolved future has shown it
\* on_response, what it has seen is a prefix of that trace, and all of it once
\* the body has ended.
C9_OrderedTrace ==
    (IsReady(cbResult) /\ cbInner[1] = "Ok")
        => /\ events # <<>>
           /\ IsPrefix(events, ExpectedTrace(cbInner[2]))
           /\ bodyEnded => events = ExpectedTrace(cbInner[2])

\* C10: when the inner future has completed with error e, the future resolved
\* to Err(Error::Inner(e)), the handler has seen on_error(e) and nothing else,
\* and it is dropped: no body owns it.
C10_InnerErrorObserved ==
    (cbInnerDone /\ cbInner[1] = "Err")
        => /\ cbResult = Ready(Err(ErrorInner(cbInner[2])))
           /\ cbResult # Ready(Err(PolledAfterCompletion))
           /\ events = <<on_error(cbInner[2])>>
           /\ handler = None
           /\ handlerOwner = "dropped"
           /\ ~ENABLED BodyPollFrame

C10_Witness ==
    /\ cbInnerDone
    /\ cbInner = Err("e2")
    /\ cbPolls >= 2

\* -------------------------------------------- grpc_timeout::ResponseFuture

RacerPollStep == rPolls' = rPolls + 1

\* The inner response as the racer hands it on: same status and headers, the
\* body inside a full MaybeEmptyBody.
PassedThrough(response) ==
    [status |-> response.status,
     headers |-> response.headers,
     body |-> [inner |-> <<response.body>>]]

\* The deadline-exceeded response, header by header.
IsDeadlineExceeded(response) ==
    /\ response.headers = {<<"content-type", "application/grpc">>,
                           <<"grpc-status", "4">>,
                           <<"grpc-message", "Timeout%20expired">>}
    /\ response.body = [inner |-> <<>>]

\* The timer fired at a time when the inner future was not ready yet.
TimerFiredFirst ==
    /\ sleep # None
    /\ now >= sleep[1]
    /\ rReadyAt = None \/ rReadyAt[1] > sleep[1]

\* The inner future became ready at a time when no timer had fired.
InnerReadyFirst ==
    /\ rReadyAt # None
    /\ sleep = None \/ rReadyAt[1] < sleep[1]

\* C5 as stated: with a deadline set, when the timer fired while the inner
\* future had not completed, the racer resolves to the synthesized response
\* and not to the inner future's result.
C5_TimerFirstGivesTimeout ==
    (RDone /\ TimerFiredFirst)
        => /\ rOut[2][1] = "Ok"
           /\ IsDeadlineExceeded(rOut[2][2])
           /\ rOut # Ready(MapFull(rInner))

\* C5 amended: with a deadline set, a poll that finds the inner future not
\* ready and the timer fired resolves to the synthesized response: Ok, the
\* three headers, an empty body, and not the inner future's result.
C5_ExpiredPollGivesTimeout ==
    [][(RacerPollStep /\ sleep # None /\ now >= sleep[1] /\ ~rInnerReady)
          => /\ IsReady(rOut')
             /\ rOut'[2][1] = "Ok"
             /\ IsDeadlineExceeded(rOut'[2][2])
             /\ rOut' # Ready(MapFull(rInner))]_vars

C5_Witness ==
    /\ rBranch = "expired"
    /\ RDone
    /\ sleep = Some(1)
    /\ ~rInnerReady

\* C6: when the inner future completes successfully before the timer fires, or
\* there is no timer, the racer resolves to the inner response: status and
\* headers unchanged, the body passed through in a full MaybeEmptyBody.
C6_InnerFirstPassesThrough ==
    (RDone /\ rInner[1] = "Ok" /\ (InnerReadyFirst \/ rBranch = "inner"))
        => rOut = Ready(Ok(PassedThrough(rInner[2])))

C6_Witness ==
    /\ RDone
    /\ rInner[1] = "Ok"
    /\ rInner[2].status = "500"
    /\ sleep = Some(2)
    /\ now < 2

\* C7: once the Expired branch has been taken the racer does not poll the
\* inner future again.
C7_ExpiredAbandonsInner ==
    [][rBranch = "expired" => rInnerPolls' = rInnerPolls]_vars

C7_Witness ==
    /\ rBranch = "expired"
    /\ rInnerReady
    /\ now > sleep[1]

\* C8: an inner error e comes out as Err(e), every Err the racer resolves to
\* is the inner future's, and expiry is Ok.
C8_ErrorsPassUnchanged ==
    /\ (rBranch = "inner" /\ rInner[1] = "Err") => rOut = Ready(Err(rInner[2]))
    /\ (RDone /\ rOut[2][1] = "Err") => (rBranch = "inner" /\ rOut[2] = rInner)
    /\ rBranch = "expired" => (RDone /\ rOut[2][1] = "Ok")

C8_Witness ==
    /\ rBranch = "inner"
    /\ rInner = Err("e1")
    /\ sleep # None
    /\ now >= sleep[1]

\* ------------------------------------------------- try_parse_grpc_timeout

Units == {"H", "M", "S", "m", "u", "n"}

\* ^[0-9]{1,8}[HMSmun]$
MatchesGrammar(val) ==
    /\ Len(val) \in 2 .. 9
    /\ \A i \in 1 .. Len(val) - 1 : IsDigitChar(val[i])
    /\ val[Len(val)] \in Units

\* The number a string of decimal digits denotes.
DecimalValue(digits) ==
    BigNorm([i \in 1 .. Len(digits) |-> DigitValue(digits[Len(digits) + 1 - i])])

\* The nanoseconds of d units.
UnitNanos(d, unit) ==
    CASE unit = "H" -> BigShift(BigMul(d, 3600), 9)
      [] unit = "M" -> BigShift(BigMul(d, 60), 9)
      [] unit = "S" -> BigShift(d, 9)
      [] unit = "m" -> BigShift(d, 6)
      [] unit = "u" -> BigShift(d, 3)
      [] unit = "n" -> d

\* C12: the parser returns a duration only for values of the grammar
\* ^[0-9]{1,8}[HMSmun]$; every other present value yields Err carrying the
\* value, and an absent header yields Ok(None).
C12_OnlyGrammarParses ==
    pc = "parsed"
        => /\ headers = None => parsed = Ok(None)
           /\ (headers # None /\ ~MatchesGrammar(headers[1])) => parsed = Err(headers[1])
           /\ headers # None => parsed # Ok(None)

\* C13: a value of 1 to 8 digits d and a unit parses to Ok(Some(duration)) with
\* the duration exactly d times the unit, leading zeros and d = 0 included.
C13_ValidValuesExact ==
    (pc = "parsed" /\ headers # None /\ MatchesGrammar(headers[1]))
        => LET val == headers[1]
               d == DecimalValue(SubSeq(val, 1, Len(val) - 1))
           IN /\ parsed[1] = "Ok"
              /\ parsed[2] # None
              /\ Len(parsed[2][1].nanos) <= 9
              /\ DurationNanos(parsed[2][1]) = UnitNanos(d, val[Len(val)])

C13_Witness ==
    /\ pc = "parsed"
    /\ headers = Some(<<"0", "1", "H">>)
    /\ parsed = Ok(Some([secs |-> <<0, 0, 6, 3>>, nanos |-> <<>>]))

\* C16: for every accepted value with unit H or M the u64 product of the
\* digits' value and the unit factor is below 2^64, and the duration holds
\* that exact product.
C16_NoOverflow ==
    (pc = "parsed" /\ parsed[1] = "Ok" /\ parsed[2] # None
        /\ headers[1][Len(headers[1])] \in {"H", "M"})
        => LET val == headers[1]
               v == ParseU64(SubSeq(val, 1, Len(val) - 1))[2]
               exact == BigMul(v, IF val[Len(val)] = "H" THEN 3600 ELSE 60)
           IN /\ BigLess(exact, TwoPow64)
              /\ parsed[2][1] = [secs |-> exact, nanos |-> <<>>]

C16_Witness ==
    /\ pc = "parsed"
    /\ headers = Some(Run("9", 8) \o <<"H">>)
    /\ parsed = Ok(Some([secs |-> <<0, 0, 4, 6, 9, 9, 9, 9, 9, 9, 5, 3>>, nanos |-> <<>>]))

\* ------------------------------------------------------ GrpcTimeout::call

\* C11: the effective deadline is absent when the client timeout and the
\* server ceiling are both absent, the present one when exactly one is, and
\* the smaller when both are: it exceeds neither.
C11_ShorterDeadlineWins ==
    pc = "called"
        => LET client == ClientTimeout(parsed)
               server == server_timeout
               effective == timeout_duration
           IN /\ (client = None /\ server = None) => effective = None
              /\ (client # None /\ server = None) => effective = client
              /\ (client = None /\ server # None) => effective = server
              /\ (client # None /\ server # None) =>
                    /\ effective \in {client, server}
                    /\ BigLeq(DurationNanos(effective[1]), DurationNanos(client[1]))
                    /\ BigLeq(DurationNanos(effective[1]), DurationNanos(server[1]))

C11_Witness ==
    /\ pc = "called"
    /\ headers = Some(<<"1", "n">>)
    /\ server_timeout = Some(DurationFromNanos(<<2>>))
    /\ timeout_duration = Some(DurationFromNanos(<<1>>))

\* C14: for a header that is present and malformed (not of the grammar) the
\* request is dispatched to the inner service once and the effective deadline
\* is the server ceiling, absent when none is configured.
C14_MalformedIsAbsent ==
    (pc = "called" /\ headers # None /\ ~MatchesGrammar(headers[1]))
        => /\ innerCalls = 1
           /\ timeout_duration = server_timeout
           /\ (server_timeout = None) = (sleep = None)

\* C15: with neither a client timeout nor a server ceiling there is no timer,
\* and every poll returns Pending exactly when the inner future is not ready
\* and the inner result otherwise, never the synthesized response.
C15_NoDeadlinePassesThrough ==
    [][(RacerPollStep /\ ClientTimeout(parsed) = None /\ server_timeout = None)
          => /\ sleep = None
             /\ rBranch' # "expired"
             /\ ~rInnerReady => rOut' = Pending
             /\ (rInnerReady /\ rInner[1] = "Ok") =>
                   rOut' = Ready(Ok(PassedThrough(rInner[2])))
             /\ (rInnerReady /\ rInner[1] = "Err") => rOut' = Ready(rInner)]_vars

C15_Witness ==
    /\ pc = "called"
    /\ headers = None
    /\ server_timeout = None
    /\ now = MaxTime
    /\ rPolls >= 2
    /\ rOut = Pending

\* ------------------------------------------------- racer: order and progress

\* C17: a poll that finds the inner future ready while the timer has elapsed
\* (a zero deadline included) returns the inner result, not the timeout
\* response; and a poll that gives the timeout response has polled the inner
\* future.
C17_InnerPolledFirst ==
    [][RacerPollStep
          => /\ (rInnerReady /\ sleep # None /\ now >= sleep[1])
                    => /\ rBranch' = "inner"
                       /\ rInner[1] = "Ok" => rOut' = Ready(Ok(PassedThrough(rInner[2])))
                       /\ rInner[1] = "Err" => rOut' = Ready(rInner)
             /\ rBranch' = "expired" => rInnerPolls' >= 1 /\ rInnerPolls' = rInnerPolls + 1]_vars

C17_Witness ==
    /\ sleep = Some(0)
    /\ rInnerReady
    /\ rPolls = 1
    /\ rBranch = "inner"
    /\ rInner[1] = "Err"
    /\ IsReady(rOut)
    /\ rOut[2][1] = "Err"
    /\ rOut[2][2] = rInner[2]

\* C18: with a deadline set the racer eventually resolves, whether or not the
\* inner future ever completes, and what expiry resolves it to is an Ok
\* response.
C18_DeadlineResolves ==
    /\ (sleep # None) ~> RDone
    /\ [](rBranch = "expired" => (RDone /\ rOut[2][1] = "Ok"))

C18_Witness ==
    /\ sleep # None
    /\ ~rInnerReady
    /\ rBranch = "expired"
    /\ RDone
    /\ rOut[2][1] = "Ok"

\* ------------------------------------------------------------ MaybeEmptyBody

\* C19: the empty body answers end of stream to poll_frame without yielding a
\* frame or an error, true to is_end_stream and exactly 0 to size_hint; a full
\* body answers what its inner body answers in the same state.
C19_EmptyOrDelegating ==
    /\ mbBody = MaybeEmptyBodyEmpty
          => /\ mbPos = 0
             /\ mbFrame \in {<<>>, Ready(None)}
             /\ mbIsEnd \in {<<>>, Some(TRUE)}
             /\ mbHint \in {<<>>, Some([lower |-> 0, upper |-> Some(0)])}
             /\ mbCall.method = "poll_frame" => mbFrame = Ready(None)
             /\ mbCall.method = "is_end_stream" => mbIsEnd = Some(TRUE)
             /\ mbCall.method = "size_hint" => mbHint # <<>>
    /\ (mbBody # <<>> /\ mbBody # MaybeEmptyBodyEmpty)
          => LET b == mbBody.inner[1]
             IN /\ mbCall.method = "poll_frame"
                      => mbFrame = InnerPollFrame(b, mbCall.pos, mbCall.ready)
                /\ mbCall.method = "is_end_stream"
                      => mbIsEnd = Some(InnerIsEndStream(b, mbCall.pos))
                /\ mbCall.method = "size_hint"
                      => mbHint = Some(InnerSizeHint(b, mbCall.pos))

C19_Witness ==
    /\ mbBody = MaybeEmptyBodyEmpty
    /\ mbFrame = Ready(None)
    /\ mbIsEnd = Some(TRUE)
    /\ mbHint = Some(SizeHintWithExact(0))

====
